---- MODULE Spec2Model ----
(***************************************************************************)
(* GuiStitchProcess (src/gui/process.py): the stitching pipeline driver.   *)
(*                                                                         *)
(* One run of run_with_error_msgs is modelled as a sequential state        *)
(* machine.  pc is the position inside run(); every status_func emission   *)
(* and every collaborator call is appended to log, in program order.       *)
(*                                                                         *)
(* percentage is a Python float (an IEEE 754 double).  A double x with    *)
(* 1/16 <= x < 128, or x = 0, is the integer x * 2^56, held as three       *)
(* limbs of 21 bits, most significant first.  Every division and addition  *)
(* is rounded to 53 significant bits, ties to even, as the hardware does.  *)
(***************************************************************************)
EXTENDS Integers, Sequences, FiniteSets, TLC

\* ---------------------------------------------------------------- bounds
\* Largest number of working directories the explorer returns.
MaxDirs == 2
\* Largest number of images one slice call returns.
MaxImgs == 3

\* ------------------------------------------------------------- arithmetic
\* One limb holds 21 bits.
Limb == 2097152

\* 1.0 in the most significant limb: 2^56 / 2^42.
TopUnit == 16384

\* Significant bits of a double.
Mantissa == 53

RECURSIVE BitLen(_)
BitLen(x) == IF x = 0 THEN 0 ELSE 1 + BitLen(x \div 2)

RECURSIVE Pow2(_)
Pow2(n) == IF n = 0 THEN 1 ELSE 2 * Pow2(n - 1)

\* Number of bits of the integer the limbs hold.
FloatBits(t) ==
    IF t[1] > 0 THEN 42 + BitLen(t[1])
    ELSE IF t[2] > 0 THEN 21 + BitLen(t[2])
    ELSE BitLen(t[3])

\* Limbs after propagating the carries.
Carry(a, b, c) ==
    LET b1 == b + (c \div Limb)
    IN  <<a + (b1 \div Limb), b1 % Limb, c % Limb>>

\* Round to 53 significant bits, ties to even.  sticky: the exact value
\* lies strictly above the limbs (a division left a remainder).
RoundDouble(t, sticky) ==
    LET drop == FloatBits(t) - Mantissa
    IN  IF drop <= 0 THEN t
        ELSE LET p == Pow2(drop)
                 r == t[3] % p
                 half == p \div 2
                 up == \/ r > half
                       \/ r = half /\ (sticky \/ (t[3] \div p) % 2 = 1)
                 kept == t[3] - r + (IF up THEN p ELSE 0)
             IN  Carry(t[1], t[2], kept)

\* x + y of two doubles.
FloatAdd(x, y) ==
    RoundDouble(Carry(x[1] + y[1], x[2] + y[2], x[3] + y[3]), FALSE)

\* float(w) / float(d) for integers w >= 0 and d >= 1.
FloatDiv(w, d) ==
    LET a == w * TopUnit
        r1 == a % d
        r2 == (r1 * Limb) % d
        r3 == (r2 * Limb) % d
    IN  RoundDouble(<<a \div d, (r1 * Limb) \div d, (r2 * Limb) \div d>>,
                    r3 # 0)

\* x <= y of two doubles.
FloatLe(x, y) ==
    \/ x[1] < y[1]
    \/ x[1] = y[1] /\ x[2] < y[2]
    \/ x[1] = y[1] /\ x[2] = y[2] /\ x[3] <= y[3]

\* The double of a whole percentage.
Pct(x) == <<x * TopUnit, 0, 0>>

\* step_percentages as first built (lines 47-55).
StepTable ==
    [explore |-> 5, load |-> 15, combine |-> 5, detect |-> 15,
     slice |-> 10, save |-> 30, postprocess |-> 20]

StepPercentagesNoRedistribution(has_pp) == StepTable

\* Lines 58-61: with post-processing disabled, "save" is raised to 50.
StepPercentages(has_pp) ==
    IF ~has_pp THEN [StepTable EXCEPT !.save = 50] ELSE StepTable

\* weight / units for units >= 1 (units = 0 raises ZeroDivisionError,
\* which the actions test before using Quot).
Quot(weight, units) == FloatDiv(weight, units)

AccumulateAssign(p, inc) == inc

\* percentage += inc
Accumulate(p, inc) == FloatAdd(p, inc)

UpscaleCheckpointLow == Pct(90)

\* Line 185: percentage = 95
UpscaleCheckpoint == Pct(95)

\* Lines 221 and 230: percentage = 100
TerminalPercentage == Pct(100)

\* ------------------------------------------------------------------ paths
\* Strings whose suffix the code tests are sequences of characters.
CuiSuffix == <<"c", "u", "i", ".", "e", "x", "e">>
VulkanSuffix == <<"v", "u", "l", "k", "a", "n", ".", "e", "x", "e">>

\* str.endswith
EndsWith(s, suf) ==
    /\ Len(s) >= Len(suf)
    /\ SubSeq(s, Len(s) - Len(suf) + 1, Len(s)) = suf

\* The values of kwargs["waifu2x_path"] tried: the default "", a caffe
\* executable, a vulkan executable, and two unrecognized names.
WaifuPaths ==
    { <<>>,
      <<"w", "-">> \o CuiSuffix,
      <<"w", "-">> \o VulkanSuffix,
      <<"w", ".", "e", "x", "e">>,
      CuiSuffix \o <<".", "b", "a", "k">> }

\* Lines 190-191 and 207-208.  "unbound": neither branch assigns waifu_type.
WaifuType(path) ==
    IF EndsWith(path, CuiSuffix) THEN "caffe"
    ELSE IF EndsWith(path, VulkanSuffix) THEN "vulkan"
    ELSE "unbound"

\* ----------------------------------------------------------------- values
\* A Python value held in kwargs: a str (its characters), an int, a float
\* with one decimal (n is the value in tenths) or None.
StrV(chars) == [t |-> "str", s |-> chars, n |-> 0]
IntV(n) == [t |-> "int", s |-> <<>>, n |-> n]
FloatV(tenths) == [t |-> "float", s |-> <<>>, n |-> tenths]
NoneV == [t |-> "none", s |-> <<>>, n |-> 0]

Digit(d) == <<"0", "1", "2", "3", "4", "5", "6", "7", "8", "9">>[d + 1]

\* str(n) of an int.
RECURSIVE IntStr(_)
IntStr(n) ==
    IF n < 0 THEN <<"-">> \o IntStr(0 - n)
    ELSE IF n < 10 THEN <<Digit(n)>>
    ELSE IntStr(n \div 10) \o <<Digit(n % 10)>>

\* str(v)
PyStr(v) ==
    CASE v.t = "str" -> v.s
      [] v.t = "int" -> IntStr(v.n)
      [] v.t = "float" -> IntStr(v.n \div 10) \o <<".", Digit(v.n % 10)>>
      [] v.t = "none" -> <<"N", "o", "n", "e">>

\* dict.get(key, default)
Get(d, key, default) == IF key \in DOMAIN d THEN d[key] ELSE default

\* The upscale parameters a caller may pass in kwargs: none, every one of
\* them, or a few.
NoKwargs == [k \in {} |-> NoneV]

FullKwargs ==
    [mode |-> StrV(<<"s", "c", "a", "l", "e">>), scale_ratio |-> FloatV(15), noise_level |-> IntV(2),
     crop_size |-> IntV(64), output_quality |-> IntV(90),
     output_depth |-> IntV(16), batch_size |-> IntV(4),
     gpu_device |-> IntV(1), tta |-> IntV(1), tile |-> IntV(200),
     profile |-> StrV(<<"p", "h", "o", "t", "o">>), output_type |-> StrV(<<".", "j", "p", "g">>),
     processWaifu |-> StrV(<<"g", "p", "u">>)]

SomeKwargs ==
    [scale_ratio |-> IntV(3), noise_level |-> IntV(-1),
     processWaifu |-> StrV(<<"c", "p", "u">>)]

WaifuKwargs == {NoKwargs, FullKwargs, SomeKwargs}

\* The values of kwargs["output_path"] tried: the default "" and "out".
OutputPaths == {<<>>, <<"o", "u", "t">>}

\* output_path + "/tmp" (lines 69 and 219)
StagingPath(out) == out \o <<"/", "t", "m", "p">>

ExplorerTargetFinal(use, out) == out

\* Lines 68-71: the output_path given to explorer.run.
ExplorerTarget(use, out) == IF use THEN StagingPath(out) ELSE out

CaffeDefaultsFromVulkan ==
    [mode |-> StrV(<<"n", "o", "i", "s", "e", "_", "s", "c", "a", "l", "e">>), scale_ratio |-> IntV(1),
     noise_level |-> IntV(-1), crop_size |-> IntV(128),
     output_quality |-> IntV(-1), output_depth |-> IntV(8),
     batch_size |-> IntV(1), gpu_device |-> IntV(0), tta |-> IntV(0),
     profile |-> StrV(<<"c", "u", "n", "e", "t">>), output_type |-> StrV(<<".", "p", "n", "g">>),
     processWaifu |-> StrV(<<"c", "p", "u">>)]

\* The defaults of lines 193-205.
CaffeDefaults ==
    [mode |-> StrV(<<"n", "o", "i", "s", "e", "_", "s", "c", "a", "l", "e">>), scale_ratio |-> FloatV(20),
     noise_level |-> IntV(0), crop_size |-> IntV(128),
     output_quality |-> IntV(-1), output_depth |-> IntV(8),
     batch_size |-> IntV(1), gpu_device |-> IntV(0), tta |-> IntV(0),
     profile |-> StrV(<<"c", "u", "n", "e", "t">>), output_type |-> StrV(<<".", "p", "n", "g">>),
     processWaifu |-> StrV(<<"c", "p", "u">>)]

\* The defaults of lines 210-217.
VulkanDefaults ==
    [noise_level |-> IntV(-1), scale_ratio |-> IntV(1), tile |-> IntV(0),
     processWaifu |-> StrV(<<"c", "p", "u">>), output_type |-> StrV(<<".", "p", "n", "g">>),
     profile |-> StrV(<<"c", "u", "n", "e", "t">>)]

\* Lines 192-206: kwargs_waifu of the caffe branch.  "mode" is passed as
\* given; every other entry is a str.
KwargsWaifuCaffe(kw, path) ==
    LET G(key) == Get(kw, key, CaffeDefaults[key])
    IN  [mode |-> G("mode"),
         scale_ratio |-> StrV(PyStr(G("scale_ratio"))),
         noise_level |-> StrV(PyStr(G("noise_level"))),
         crop_size |-> StrV(PyStr(G("crop_size"))),
         output_quality |-> StrV(PyStr(G("output_quality"))),
         output_depth |-> StrV(PyStr(G("output_depth"))),
         batch_size |-> StrV(PyStr(G("batch_size"))),
         gpu_device |-> StrV(PyStr(G("gpu_device"))),
         tta |-> StrV(PyStr(G("tta"))),
         model |-> StrV(<<"m", "o", "d", "e", "l", "s", "/">> \o G("profile").s),
         path |-> StrV(path),
         type |-> StrV(PyStr(G("output_type"))),
         processWaifu |-> StrV(PyStr(G("processWaifu")))]

GpuIdAlwaysZero(device) == IntV(0)

\* Line 213: -1 if str(processWaifu) == "cpu" else 0
GpuId(device) == IF PyStr(device) = <<"c", "p", "u">> THEN IntV(-1) ELSE IntV(0)

\* Lines 209-218: kwargs_waifu of the vulkan branch.
KwargsWaifuVulkan(kw, path) ==
    LET G(key) == Get(kw, key, VulkanDefaults[key])
    IN  [noise_level |-> StrV(PyStr(G("noise_level"))),
         scale_ratio |-> StrV(PyStr(G("scale_ratio"))),
         tile_size |-> StrV(PyStr(G("tile"))),
         gpu_id |-> StrV(PyStr(GpuId(G("processWaifu")))),
         output_format |-> StrV(PyStr(G("output_type"))),
         path |-> StrV(path),
         model |-> StrV(<<"m", "o", "d", "e", "l", "s", "/">> \o G("profile").s),
         type |-> StrV(PyStr(G("output_type")))]

\* Lines 242-257: the caffe argument vector of run_waifu2x.
CaffeCommand(input_path, out, kw) ==
    <<Get(kw, "path", StrV(<<>>)).s,
      <<"-", "i">>, input_path,
      <<"-", "o">>, out,
      <<"-", "e">>, PyStr(Get(kw, "type", NoneV)),
      <<"-", "m">>, PyStr(Get(kw, "mode", StrV(<<"n", "o", "i", "s", "e", "_", "s", "c", "a", "l", "e">>))),
      <<"-", "s">>, PyStr(Get(kw, "scale_ratio", FloatV(20))),
      <<"-", "n">>, PyStr(Get(kw, "noise_level", IntV(0))),
      <<"-", "p">>, PyStr(Get(kw, "processWaifu", StrV(<<"c", "p", "u">>))),
      <<"-", "c">>, PyStr(Get(kw, "crop_size", IntV(128))),
      <<"-", "q">>, PyStr(Get(kw, "output_quality", IntV(-1))),
      <<"-", "d">>, PyStr(Get(kw, "output_depth", IntV(8))),
      <<"-", "b">>, PyStr(Get(kw, "batch_size", IntV(1))),
      <<"-", "-", "g", "p", "u">>, PyStr(Get(kw, "gpu_device", IntV(0))),
      <<"-", "t">>, PyStr(Get(kw, "tta", IntV(0)))>>

\* Lines 264-275: the vulkan argument vector of run_waifu2x.  "model" is
\* passed as stored, without str().
VulkanCommand(input_path, out, kw) ==
    <<Get(kw, "path", StrV(<<>>)).s,
      <<"-", "i">>, input_path,
      <<"-", "o">>, out,
      <<"-", "n">>, PyStr(Get(kw, "noise_level", IntV(-1))),
      <<"-", "s">>, PyStr(Get(kw, "scale_ratio", IntV(1))),
      <<"-", "t">>, PyStr(Get(kw, "tile_size", IntV(0))),
      <<"-", "m">>, Get(kw, "model", NoneV).s,
      <<"-", "g">>, PyStr(Get(kw, "gpu_id", IntV(0))),
      <<"-", "x">>,
      <<"-", "f">>, PyStr(Get(kw, "output_format", StrV(<<"p", "n", "g">>)))>>

\* Lines 240 and 262: the argument vector by waifu_type.
Command(input_path, out, type, kw) ==
    IF type = "caffe" THEN CaffeCommand(input_path, out, kw)
    ELSE VulkanCommand(input_path, out, kw)

\* ----------------------------------------------------------------- errors
NoError == [type |-> "none", msg |-> "", site |-> ""]

\* Messages of the exceptions a collaborator may raise.
ErrMsgs == {"disk full", "bad image"}

CollaboratorError(site, msg) == [type |-> "Exception", msg |-> msg, site |-> site]

ZeroDivisionError(site) ==
    [type |-> "ZeroDivisionError", msg |-> "float division by zero", site |-> site]

UnboundLocalError(site) ==
    [type |-> "UnboundLocalError",
     msg |-> "local variable 'waifu_type' referenced before assignment",
     site |-> site]

CalledProcessError(site) ==
    [type |-> "CalledProcessError", msg |-> "returned non-zero exit status",
     site |-> site]

LaunchError(site) ==
    [type |-> "OSError", msg |-> "No such file or directory", site |-> site]

CaughtNowhere(site, type) == FALSE

CaughtAlsoPostprocess(site, type) ==
    /\ site \in {"subprocess.run", "postprocess_runner.run"}
    /\ type = "CalledProcessError"

\* The only try/except inside run and run_waifu2x (lines 258-261, 276-279):
\* CalledProcessError of subprocess.run is caught and printed.
CaughtInPlace(site, type) ==
    site = "subprocess.run" /\ type = "CalledProcessError"

NeedsCleanupCaffeOnly(waifu_type) == waifu_type = "caffe"

\* Line 281.
NeedsCleanup(waifu_type) == waifu_type = "caffe" \/ waifu_type = "vulkan"

\* ------------------------------------------------------------ log entries
Status(p, prefix, text, d, i) ==
    [kind |-> "status", prefix |-> prefix, name |-> text, pct |-> p,
     dir |-> d, idx |-> i, args |-> <<>>]

\* A call whose arguments the model follows.
CallWith(name, d, i, args) ==
    [kind |-> "call", prefix |-> "", name |-> name, pct |-> Pct(0),
     dir |-> d, idx |-> i, args |-> args]

Call(name, d, i) == CallWith(name, d, i, <<>>)

Printed(text) ==
    [kind |-> "print", prefix |-> "", name |-> text, pct |-> Pct(0),
     dir |-> 0, idx |-> 0, args |-> <<>>]

ErrorStatusGeneric(error) == Status(Pct(0), "Idle - ", "error", 0, 0)

\* Line 26: status_func(0, "Idle - {0}".format(str(error)))
ErrorStatus(error) == Status(Pct(0), "Idle - ", error.msg, 0, 0)

\* Lines 222-227 and 231-236.
CompletedStatus == Status(TerminalPercentage, "Idle - ", "Process completed", 0, 0)

VARIABLES
    pc,                 \* position in run_with_error_msgs / run
    use_waifu2x,        \* kwargs["use_waifu2x"]
    waifu2x_path,       \* kwargs["waifu2x_path"]
    output_path,        \* kwargs["output_path"]
    waifu_kwargs,       \* the upscale parameters present in kwargs
    stored,             \* the stored settings, which the user may edit
    settings,           \* what SettingsHandler.load returns, by key
    has_postprocess,    \* local of run (line 58)
    step_percentages,   \* local of run (lines 47-61)
    percentage,         \* local of run, a double as three limbs
    input_dirs_count,   \* local of run (line 72)
    dir_iteration,      \* local of run (line 81)
    img_iteration,      \* local of run (line 139)
    img_count,          \* local of run (line 140)
    waifu_type,         \* local of run (lines 191, 208)
    kwargs_waifu,       \* local of run (lines 192, 209)
    staging_exists,     \* whether output_path + "/tmp" exists on disk
    sub_exit,           \* how the upscaler subprocess ended
    pp_exit,            \* how the last post-process command ended
    error,              \* the exception in flight, or NoError
    raised_to_caller,   \* the exception run_with_error_msgs re-raised
    log                 \* status emissions, collaborator calls, prints

vars ==
    <<pc, use_waifu2x, waifu2x_path, output_path, waifu_kwargs, stored,
      settings, has_postprocess,
      step_percentages, percentage, input_dirs_count, dir_iteration,
      img_iteration, img_count, waifu_type, kwargs_waifu, staging_exists,
      sub_exit, pp_exit, error, raised_to_caller, log>>

kwargs == <<use_waifu2x, waifu2x_path, output_path, waifu_kwargs>>
loop_locals == <<input_dirs_count, dir_iteration, img_iteration, img_count>>
upscale_state == <<waifu_type, kwargs_waifu, staging_exists, sub_exit>>

\* The state when run_with_error_msgs is entered.  The upscaler path and
\* parameters are read only under use_waifu2x, so they are varied only there.
Init ==
    /\ pc = "idle"
    /\ use_waifu2x \in BOOLEAN
    /\ waifu2x_path \in WaifuPaths
    /\ output_path \in OutputPaths
    /\ waifu_kwargs \in WaifuKwargs
    /\ ~use_waifu2x => waifu2x_path = <<>> /\ waifu_kwargs = NoKwargs
    /\ stored \in [run_postprocess : BOOLEAN]
    /\ settings = stored
    /\ has_postprocess = FALSE
    /\ step_percentages = StepTable
    /\ percentage = Pct(0)
    /\ input_dirs_count = 0
    /\ dir_iteration = 0
    /\ img_iteration = 0
    /\ img_count = 0
    /\ waifu_type = "unbound"
    /\ kwargs_waifu = NoKwargs
    /\ staging_exists = FALSE
    /\ sub_exit = "none"
    /\ pp_exit = "none"
    /\ error = NoError
    /\ raised_to_caller = NoError
    /\ log = <<>>

\* An exception leaves run(): control goes to the except clause of
\* run_with_error_msgs (line 25).
Raise(e, newlog) ==
    /\ pc' = "raised"
    /\ error' = e
    /\ log' = newlog

\* ----------------------------------------------------------------- run()
\* SettingsHandler(): the handler resolves the stored configuration once,
\* when it is built, and load(key) answers from that snapshot.
SettingsSnapshot(s) == s

\* The user edits the stored run_postprocess setting.  The run's handler
\* keeps its snapshot.
SettingsChanged ==
    /\ pc \notin {"done", "reraised"}
    /\ stored' = [stored EXCEPT !.run_postprocess = ~stored.run_postprocess]
    /\ UNCHANGED <<pc, kwargs, settings, has_postprocess, step_percentages,
                   percentage, loop_locals, upscale_state, pp_exit, error,
                   raised_to_caller, log>>

\* Lines 34-66: the services are built, the step table and has_postprocess
\* are fixed, percentage starts at 0.0 and the first status is emitted.
Begin ==
    /\ pc = "idle"
    /\ \/ \E msg \in ErrMsgs :
            /\ Raise(CollaboratorError("SettingsHandler", msg),
                     Append(log, Call("SettingsHandler", 0, 0)))
            /\ UNCHANGED <<settings, has_postprocess, step_percentages,
                           percentage>>
       \/ /\ settings' = SettingsSnapshot(stored)
          /\ has_postprocess' = settings'.run_postprocess
          /\ step_percentages' = StepPercentages(has_postprocess')
          /\ percentage' = Pct(0)
          /\ log' = log \o <<Call("SettingsHandler", 0, 0),
                             Status(Pct(0), "", "Exploring input directory", 0, 0)>>
          /\ pc' = "explore"
          /\ UNCHANGED error
    /\ UNCHANGED <<kwargs, pp_exit, stored, loop_locals, upscale_state,
                   raised_to_caller>>

\* Lines 68-81: explorer.run, the "directories were found" status, the
\* explore increment, dir_iteration = 1.  With use_waifu2x the explorer is
\* given output_path + "/tmp"; whether it creates that directory is the
\* explorer's business, so both outcomes are allowed.
Explore ==
    /\ pc = "explore"
    /\ \/ \E msg \in ErrMsgs :
            /\ Raise(CollaboratorError("explorer.run", msg),
                     Append(log, CallWith("explorer.run", 0, 0,
                                          <<ExplorerTarget(use_waifu2x,
                                                           output_path)>>)))
            /\ UNCHANGED <<percentage, loop_locals, staging_exists>>
       \/ \E n \in 0 .. MaxDirs, made \in BOOLEAN :
            /\ made => use_waifu2x
            /\ input_dirs_count' = n
            /\ staging_exists' = made
            /\ log' = log \o <<CallWith("explorer.run", 0, 0,
                                        <<ExplorerTarget(use_waifu2x,
                                                         output_path)>>),
                               Status(percentage, "Working - ",
                                      "Working directories were found", 0, n)>>
            /\ percentage' = Accumulate(percentage, Pct(step_percentages.explore))
            /\ dir_iteration' = 1
            /\ pc' = "loop"
            /\ UNCHANGED <<img_iteration, img_count, error>>
    /\ UNCHANGED <<kwargs, pp_exit, stored, settings, has_postprocess, step_percentages,
                   waifu_type, kwargs_waifu, sub_exit, raised_to_caller>>

\* Lines 82-89: the loop takes the next directory and announces its load.
DirBegin ==
    /\ pc = "loop"
    /\ dir_iteration <= input_dirs_count
    /\ log' = Append(log, Status(percentage, "Working - ",
                                 "Preparing & loading images", dir_iteration, 0))
    /\ pc' = "load"
    /\ UNCHANGED <<kwargs, pp_exit, stored, settings, has_postprocess, step_percentages,
                   percentage, loop_locals, upscale_state, error,
                   raised_to_caller>>

\* Lines 92-105: img_handler.load, img_manipulator.resize, the load
\* increment, the "combining" status.
Load ==
    /\ pc = "load"
    /\ \/ \E msg \in ErrMsgs :
            /\ \/ Raise(CollaboratorError("img_handler.load", msg),
                        Append(log, Call("img_handler.load", dir_iteration, 0)))
               \/ Raise(CollaboratorError("img_manipulator.resize", msg),
                        log \o <<Call("img_handler.load", dir_iteration, 0),
                                 Call("img_manipulator.resize", dir_iteration, 0)>>)
            /\ UNCHANGED percentage
       \/ /\ percentage' = Accumulate(percentage,
                                      Quot(step_percentages.load, input_dirs_count))
          /\ log' = log \o <<Call("img_handler.load", dir_iteration, 0),
                             Call("img_manipulator.resize", dir_iteration, 0),
                             Status(percentage', "Working - ",
                                    "Combining images", dir_iteration, 0)>>
          /\ pc' = "combine"
          /\ UNCHANGED error
    /\ UNCHANGED <<kwargs, pp_exit, stored, settings, has_postprocess, step_percentages,
                   loop_locals, upscale_state, raised_to_caller>>

\* Lines 107-114: img_manipulator.combine, the combine increment, the
\* "detecting" status.
Combine ==
    /\ pc = "combine"
    /\ \/ \E msg \in ErrMsgs :
            /\ Raise(CollaboratorError("img_manipulator.combine", msg),
                     Append(log, Call("img_manipulator.combine", dir_iteration, 0)))
            /\ UNCHANGED percentage
       \/ /\ percentage' = Accumulate(percentage,
                                      Quot(step_percentages.combine, input_dirs_count))
          /\ log' = log \o <<Call("img_manipulator.combine", dir_iteration, 0),
                             Status(percentage', "Working - ",
                                    "Detecting slicing points", dir_iteration, 0)>>
          /\ pc' = "detect"
          /\ UNCHANGED error
    /\ UNCHANGED <<kwargs, pp_exit, stored, settings, has_postprocess, step_percentages,
                   loop_locals, upscale_state, raised_to_caller>>

\* Lines 116-129: detector.run, the detect increment, the "generating
\* sliced output" status.
Detect ==
    /\ pc = "detect"
    /\ \/ \E msg \in ErrMsgs :
            /\ Raise(CollaboratorError("detector.run", msg),
                     Append(log, Call("detector.run", dir_iteration, 0)))
            /\ UNCHANGED percentage
       \/ /\ percentage' = Accumulate(percentage,
                                      Quot(step_percentages.detect, input_dirs_count))
          /\ log' = log \o <<Call("detector.run", dir_iteration, 0),
                             Status(percentage', "Working - ",
                                    "Generating sliced output images", dir_iteration, 0)>>
          /\ pc' = "slice"
          /\ UNCHANGED error
    /\ UNCHANGED <<kwargs, pp_exit, stored, settings, has_postprocess, step_percentages,
                   loop_locals, upscale_state, raised_to_caller>>

\* Lines 131-140: img_manipulator.slice returns m images (kept in the idx
\* field of its log entry), the slice increment, the "saving" status,
\* img_iteration = 1, img_count = m.
Slice ==
    /\ pc = "slice"
    /\ \/ \E msg \in ErrMsgs :
            /\ Raise(CollaboratorError("img_manipulator.slice", msg),
                     Append(log, Call("img_manipulator.slice", dir_iteration, 0)))
            /\ UNCHANGED <<percentage, img_iteration, img_count>>
       \/ \E m \in 0 .. MaxImgs :
            /\ percentage' = Accumulate(percentage,
                                        Quot(step_percentages.slice, input_dirs_count))
            /\ log' = log \o <<Call("img_manipulator.slice", dir_iteration, m),
                               Status(percentage', "Working - ",
                                      "Saving output images", dir_iteration, 0)>>
            /\ img_iteration' = 1
            /\ img_count' = m
            /\ pc' = "save"
            /\ UNCHANGED error
    /\ UNCHANGED <<kwargs, pp_exit, stored, settings, has_postprocess, step_percentages,
                   input_dirs_count, dir_iteration, upscale_state,
                   raised_to_caller>>

NextImgSkips(i) == i + 2

\* Line 150: img_iteration += 1
NextImg(i) == i + 1

\* Lines 141-161: one pass of the save loop.  The image is written below the
\* directory's output target, which lies in the staging tree when
\* use_waifu2x is set.
Save ==
    /\ pc = "save"
    /\ img_iteration <= img_count
    /\ \/ \E msg \in ErrMsgs :
            /\ Raise(CollaboratorError("img_handler.save", msg),
                     Append(log, Call("img_handler.save", dir_iteration, img_iteration)))
            /\ UNCHANGED <<percentage, img_iteration, staging_exists>>
       \/ /\ img_iteration' = NextImg(img_iteration)
          /\ percentage' = Accumulate(percentage,
                                      Quot(step_percentages.save,
                                           input_dirs_count * img_count))
          /\ staging_exists' = (use_waifu2x \/ staging_exists)
          /\ log' = log \o <<Call("img_handler.save", dir_iteration, img_iteration),
                             Status(percentage', "Working - ",
                                    "has been successfully saved",
                                    dir_iteration, img_iteration)>>
          /\ UNCHANGED <<pc, error>>
    /\ UNCHANGED <<kwargs, pp_exit, stored, settings, has_postprocess, step_percentages,
                   input_dirs_count, dir_iteration, img_count, waifu_type,
                   kwargs_waifu,
                   sub_exit, raised_to_caller>>

PostprocessNever(s) == FALSE

\* Line 164: settings.load("run_postprocess")
PostprocessDue(s) == s.run_postprocess

\* Lines 162-172 and 182: the save loop is over; gc.collect(); the stored
\* run_postprocess setting is loaded again and decides whether the
\* post-process step runs for this directory.
AfterSave ==
    /\ pc = "save"
    /\ img_iteration > img_count
    /\ \/ /\ PostprocessDue(settings)
          /\ log' = Append(log, Status(percentage, "Working - ",
                                       "Running post process", dir_iteration, 0))
          /\ pc' = "postprocess"
          /\ UNCHANGED dir_iteration
       \/ /\ ~PostprocessDue(settings)
          /\ dir_iteration' = dir_iteration + 1
          /\ pc' = "loop"
          /\ UNCHANGED log
    /\ UNCHANGED <<kwargs, pp_exit, stored, settings, has_postprocess, step_percentages,
                   percentage, input_dirs_count, img_iteration, img_count,
                   upscale_state, error, raised_to_caller>>

\* PostProcessRunner.run: a command that cannot be launched, or that ends
\* with a non-zero exit status, is raised to the caller.
PostProcessRunnerRaises(outcome) == outcome \in {"nonzero", "launchfail"}

PostProcessOutcomes == {"exit0", "nonzero", "launchfail"}

PostProcessError(outcome) ==
    IF outcome = "launchfail"
    THEN LaunchError("postprocess_runner.run")
    ELSE CalledProcessError("postprocess_runner.run")

\* Lines 173-182: postprocess_runner.run, then the postprocess increment,
\* whose divisor is input_dirs_count * img_count, then dir_iteration += 1.
PostProcess ==
    /\ pc = "postprocess"
    /\ \E outcome \in PostProcessOutcomes :
         LET called == Append(log, Call("postprocess_runner.run", dir_iteration, 0))
             thrown == /\ PostProcessRunnerRaises(outcome)
                       /\ ~CaughtInPlace("postprocess_runner.run",
                                         PostProcessError(outcome).type)
             units == input_dirs_count * img_count
         IN  /\ pp_exit' = outcome
             /\ \/ /\ thrown
                    /\ Raise(PostProcessError(outcome), called)
                    /\ UNCHANGED <<percentage, dir_iteration>>
                 \/ /\ ~thrown
                    /\ units = 0
                    /\ Raise(ZeroDivisionError("postprocess increment"), called)
                    /\ UNCHANGED <<percentage, dir_iteration>>
                 \/ /\ ~thrown
                    /\ units # 0
                    /\ percentage' = Accumulate(percentage,
                                                Quot(step_percentages.postprocess, units))
                    /\ dir_iteration' = dir_iteration + 1
                    /\ log' = called
                    /\ pc' = "loop"
                    /\ UNCHANGED error
    /\ UNCHANGED <<kwargs, stored, settings, has_postprocess, step_percentages,
                   input_dirs_count, img_iteration, img_count, upscale_state,
                   raised_to_caller>>

\* Lines 228-236: no upscale was requested; percentage = 100 and the
\* completion status.
Finish ==
    /\ pc = "loop"
    /\ dir_iteration > input_dirs_count
    /\ ~use_waifu2x
    /\ percentage' = TerminalPercentage
    /\ log' = Append(log, CompletedStatus)
    /\ pc' = "done"
    /\ UNCHANGED <<kwargs, pp_exit, stored, settings, has_postprocess, step_percentages,
                   loop_locals, upscale_state, error, raised_to_caller>>

\* Lines 184-218: upscale was requested; percentage = 95, its status, and
\* the choice of waifu_type and kwargs_waifu by the suffix of waifu2x_path
\* (neither is assigned when no suffix matches).
UpscaleBegin ==
    /\ pc = "loop"
    /\ dir_iteration > input_dirs_count
    /\ use_waifu2x
    /\ percentage' = UpscaleCheckpoint
    /\ log' = Append(log, Status(UpscaleCheckpoint, "",
                                 "Waifu2x-Caffe is processing", 0, 0))
    /\ waifu_type' = WaifuType(waifu2x_path)
    /\ kwargs_waifu' =
          IF waifu_type' = "caffe"
          THEN KwargsWaifuCaffe(waifu_kwargs, waifu2x_path)
          ELSE IF waifu_type' = "vulkan"
          THEN KwargsWaifuVulkan(waifu_kwargs, waifu2x_path)
          ELSE kwargs_waifu
    /\ pc' = "dispatch"
    /\ UNCHANGED <<kwargs, pp_exit, stored, settings, has_postprocess, step_percentages,
                   loop_locals, staging_exists, sub_exit, error,
                   raised_to_caller>>

SubprocessOutcomes == {"exit0", "nonzero", "launchfail"}

\* Lines 219-227 with run_waifu2x (lines 238-282): the call reads waifu_type
\* (UnboundLocalError when no branch assigned it); run_waifu2x launches the
\* command, prints a CalledProcessError, removes the staging tree; then
\* percentage = 100 and the completion status.
Upscale ==
    /\ pc = "dispatch"
    /\ \/ /\ waifu_type = "unbound"
          /\ Raise(UnboundLocalError("run_waifu2x call"), log)
          /\ UNCHANGED <<percentage, staging_exists, sub_exit>>
       \/ /\ waifu_type # "unbound"
          /\ \E outcome \in SubprocessOutcomes :
               LET input_path == StagingPath(output_path)
                   launched == Get(kwargs_waifu, "path", StrV(<<>>)).s # <<>>
                   log1 == IF launched
                           THEN Append(log,
                                       CallWith("subprocess.run", 0, 0,
                                                Command(input_path, output_path,
                                                        waifu_type, kwargs_waifu)))
                           ELSE log
                   nonzero == launched /\ outcome = "nonzero"
                   thrown ==
                       IF launched /\ outcome = "launchfail"
                       THEN LaunchError("subprocess.run")
                       ELSE IF nonzero /\ ~CaughtInPlace("subprocess.run",
                                                         "CalledProcessError")
                       THEN CalledProcessError("subprocess.run")
                       ELSE NoError
                   log2 == IF nonzero /\ thrown = NoError
                           THEN Append(log1, Printed("Error executing command"))
                           ELSE log1
                   log3 == Append(log2, CallWith("shutil.rmtree", 0, 0,
                                                 <<input_path>>))
               IN  /\ sub_exit' = (IF launched THEN outcome ELSE "none")
                   /\ \/ /\ thrown # NoError
                         /\ Raise(thrown, log2)
                         /\ UNCHANGED <<percentage, staging_exists>>
                      \/ /\ thrown = NoError
                         /\ NeedsCleanup(waifu_type)
                         /\ ~staging_exists
                         /\ Raise([type |-> "FileNotFoundError",
                                   msg |-> "No such file or directory",
                                   site |-> "shutil.rmtree"], log3)
                         /\ UNCHANGED <<percentage, staging_exists>>
                      \/ /\ thrown = NoError
                         /\ NeedsCleanup(waifu_type) => staging_exists
                         /\ staging_exists' =
                               (staging_exists /\ ~NeedsCleanup(waifu_type))
                         /\ percentage' = TerminalPercentage
                         /\ log' = Append(IF NeedsCleanup(waifu_type)
                                          THEN log3 ELSE log2,
                                          CompletedStatus)
                         /\ pc' = "done"
                         /\ UNCHANGED error
    /\ UNCHANGED <<kwargs, pp_exit, stored, settings, has_postprocess, step_percentages,
                   loop_locals, waifu_type, kwargs_waifu, raised_to_caller>>

\* ------------------------------------------------- run_with_error_msgs()
\* Line 27: raise error
Reraised(e) == e

\* Lines 25-27: the except clause reports the error and re-raises it.
HandleError ==
    /\ pc = "raised"
    /\ log' = Append(log, ErrorStatus(error))
    /\ raised_to_caller' = Reraised(error)
    /\ pc' = "reraised"
    /\ UNCHANGED <<kwargs, pp_exit, stored, settings, has_postprocess, step_percentages,
                   percentage, loop_locals, upscale_state, error>>

Next ==
    \/ Begin
    \/ Explore
    \/ DirBegin
    \/ Load
    \/ Combine
    \/ Detect
    \/ Slice
    \/ Save
    \/ AfterSave
    \/ PostProcess
    \/ Finish
    \/ UpscaleBegin
    \/ Upscale
    \/ HandleError
    \/ SettingsChanged

Spec == Init /\ [][Next]_vars

\* ------------------------------------------------------- reading the log
IsStatus(e) == e.kind = "status"
IsCall(e, name) == e.kind = "call" /\ e.name = name

\* The status_func emissions, in order.
Statuses == SelectSeq(log, IsStatus)

\* Positions of the calls of one collaborator.
CallsOf(name) == {i \in DOMAIN log : IsCall(log[i], name)}

Launches == Cardinality(CallsOf("subprocess.run"))

\* Number of images saved for directory d.
SavedOf(d) ==
    Cardinality({i \in CallsOf("img_handler.save") : log[i].dir = d})

\* waifu2x_path ends with one of the two known executable names.
Recognized ==
    \/ EndsWith(waifu2x_path, CuiSuffix)
    \/ EndsWith(waifu2x_path, VulkanSuffix)

\* The loop over input_dirs has ended.
AllDirsProcessed == dir_iteration > input_dirs_count

IsCompleted(e) ==
    /\ IsStatus(e)
    /\ e.pct = Pct(100)
    /\ e.prefix = "Idle - "
    /\ e.name = "Process completed"

IsCheckpoint(e) == IsStatus(e) /\ e.pct = Pct(95)

StageCalls ==
    {"img_handler.load", "img_manipulator.resize", "img_manipulator.combine",
     "detector.run", "img_manipulator.slice", "img_handler.save",
     "postprocess_runner.run"}

\* ------------------------------------------------------------------ claims

\* C1: among the emissions of run(), a percentage is never below the one
\* emitted before it, except at the emission of the upscale checkpoint and
\* at the completion emission.
C1_Monotone ==
    pc # "reraised" =>
        LET s == Statuses
        IN  \A i \in 1 .. Len(s) - 1 :
                \/ FloatLe(s[i].pct, s[i + 1].pct)
                \/ s[i + 1].name = "Waifu2x-Caffe is processing"
                \/ IsCompleted(s[i + 1])

\* A completed run over two directories whose percentage fell from 100 to 95
\* on entering the upscale stage.
C1_Witness ==
    /\ pc = "done"
    /\ input_dirs_count >= 2
    /\ \E i \in 1 .. Len(Statuses) - 1 :
          /\ Statuses[i].pct = Pct(100)
          /\ Statuses[i + 1].pct = Pct(95)

\* C2: once the last of N >= 1 directories, each with the same number
\* M >= 1 of saved images, has been processed, the accumulated percentage
\* is exactly 100, with and without post-processing.
C2_SumIsHundred ==
    ( /\ pc = "loop"
      /\ AllDirsProcessed
      /\ input_dirs_count >= 1
      /\ \A d \in 1 .. input_dirs_count :
            SavedOf(d) >= 1 /\ SavedOf(d) = SavedOf(1) )
    => percentage = Pct(100)

\* C3: the upscaler is launched at most once, only when requested with a
\* recognized path, only after the last directory and directly after the
\* 95 emission; a completed run ends with the 100 emission, has launched
\* the upscaler exactly once after 95 when requested with a recognized
\* path, and never without use_waifu2x.
C3_UpscaleCheckpoints ==
    /\ Launches <= 1
    /\ ~use_waifu2x => Launches = 0
    /\ \A i \in CallsOf("subprocess.run") :
          /\ use_waifu2x /\ Recognized
          /\ AllDirsProcessed
          /\ i > 1
          /\ IsCheckpoint(log[i - 1])
          /\ \A j \in CallsOf("img_handler.save") \cup
                      CallsOf("postprocess_runner.run") : j < i
    /\ pc = "done" =>
          /\ IsCompleted(log[Len(log)])
          /\ (use_waifu2x /\ Recognized) =>
                /\ Launches = 1
                /\ Len(Statuses) >= 2
                /\ Statuses[Len(Statuses) - 1].pct = Pct(95)
                /\ \A i \in CallsOf("subprocess.run") : i < Len(log)

\* A completed run over at least one directory that launched the upscaler.
C3_Witness ==
    /\ pc = "done"
    /\ use_waifu2x
    /\ Launches = 1
    /\ input_dirs_count >= 1
    /\ SavedOf(1) >= 1

\* Errors that come from outside run(): a collaborator, the upscaler
\* command or the file system.
ExternalErrorTypes == {"none", "Exception", "OSError", "FileNotFoundError"}

ExplorerReturned ==
    /\ pc \notin {"idle", "explore"}
    /\ error.site \notin {"SettingsHandler", "explorer.run"}

\* C4: when the explorer returns no directory, run() itself raises
\* nothing, no stage collaborator is called, and a completed run ends with
\* the 100 emission, preceded by the 95 emission when upscale is requested.
C4_ZeroDirectories ==
    (ExplorerReturned /\ input_dirs_count = 0) =>
        /\ error.type \in ExternalErrorTypes
        /\ \A name \in StageCalls : CallsOf(name) = {}
        /\ pc = "done" =>
              /\ IsCompleted(log[Len(log)])
              /\ use_waifu2x => Statuses[Len(Statuses) - 1].pct = Pct(95)

\* C5: a directory whose slice stage yields no image never makes the run
\* fail with a division by zero.
C5_NoZeroDivision ==
    img_count = 0 => error.type # "ZeroDivisionError"

\* C6: with upscale requested and an unrecognized path, once the upscale
\* stage is entered the run launches nothing, raises nothing and goes on to
\* the completion emission.
C6_UnrecognizedIsNoOp ==
    (use_waifu2x /\ ~Recognized /\ \E i \in DOMAIN log : IsCheckpoint(log[i])) =>
        /\ Launches = 0
        /\ pc \in {"dispatch", "done"}
        /\ error = NoError

\* C7: after the upscaler command has run and exited, with status zero or
\* not, the staging directory does not exist.
C7_StagingRemoved ==
    sub_exit \in {"exit0", "nonzero"} => ~staging_exists

\* The vulkan upscaler exited non-zero over a staging tree that held saved
\* images, and the tree was removed.
C7_Witness ==
    /\ sub_exit = "nonzero"
    /\ waifu_type = "vulkan"
    /\ CallsOf("img_handler.save") # {}
    /\ CallsOf("shutil.rmtree") # {}
    /\ pc = "done"

C10_ErrorReported ==
    /\ pc = "raised" =>
          /\ error # NoError
          /\ \A i \in DOMAIN log : log[i].prefix # "Idle - "
          /\ error.type \in ExternalErrorTypes \cup {"CalledProcessError"} =>
                IsCall(log[Len(log)], error.site)
    /\ pc = "reraised" =>
          /\ error # NoError
          /\ raised_to_caller = error
          /\ log[Len(log)] = Status(Pct(0), "Idle - ", error.msg, 0, 0)
          /\ Cardinality({i \in DOMAIN log : log[i].prefix = "Idle - "}) = 1
          /\ error.type \in ExternalErrorTypes \cup {"CalledProcessError"} =>
                /\ Len(log) >= 2
                /\ IsCall(log[Len(log) - 1], error.site)
    /\ pc \notin {"raised", "reraised"} => error = NoError /\ raised_to_caller = NoError

\* Saving the second image of the second directory raised and the error was
\* reported and re-raised.
C10_Witness ==
    /\ pc = "reraised"
    /\ error.site = "img_handler.save"
    /\ error.msg = "disk full"
    /\ log[Len(log) - 1].dir = 2
    /\ log[Len(log) - 1].idx = 2

\* ------------------------------------------------- reading the log, again
IsDirCall(e, d) == e.kind = "call" /\ e.dir = d

\* The collaborator calls made for directory d, in order.
DirCalls(d) == SelectSeq(log, LAMBDA e : IsDirCall(e, d))

\* Number of images the slice call of directory d returned.
ImagesOf(d) ==
    LET at == {i \in CallsOf("img_manipulator.slice") : log[i].dir = d}
    IN  IF at = {} THEN 0 ELSE log[CHOOSE i \in at : TRUE].idx

RECURSIVE SumImages(_)
SumImages(n) == IF n = 0 THEN 0 ELSE ImagesOf(n) + SumImages(n - 1)

\* The directories whose pass through the loop has ended.
CompletedDirs == {d \in 1 .. input_dirs_count : d < dir_iteration}

PostprocessCallsOf(d) ==
    {i \in CallsOf("postprocess_runner.run") : log[i].dir = d}

StageOrder ==
    <<"img_handler.load", "img_manipulator.resize", "img_manipulator.combine",
      "detector.run", "img_manipulator.slice">>

\* C11: whatever is called or emitted for a directory comes before whatever
\* is called or emitted for a later one, and a later directory is begun
\* only after every image of the earlier one was saved and, with
\* post-processing enabled, its post-process command was invoked.
C11_DirectoriesInSequence ==
    \A d \in 1 .. input_dirs_count :
        LET mine == {i \in DOMAIN log : log[i].dir = d}
            later == {j \in DOMAIN log : log[j].dir > d}
            saved == {i \in mine : /\ IsStatus(log[i])
                                   /\ log[i].name = "has been successfully saved"}
        IN  later # {} =>
              /\ \A i \in mine : \A j \in later : i < j
              /\ SavedOf(d) = ImagesOf(d)
              /\ {log[i].idx : i \in saved} = 1 .. ImagesOf(d)
              /\ settings.run_postprocess => PostprocessCallsOf(d) # {}

\* The second directory is being loaded after the three images of the
\* first were saved and post-processed.
C11_Witness ==
    /\ settings.run_postprocess
    /\ ImagesOf(1) = 3
    /\ \E i \in CallsOf("img_handler.load") : log[i].dir = 2

\* C12: the calls made for one directory are, in this order, load, resize,
\* combine, detect, slice, then save with ordinals 1, 2, ... up to the
\* number of sliced images, then the post-process command exactly when
\* post-processing is enabled; a directory that was completed has all of
\* them, each once.
C12_StageOrder ==
    \A d \in 1 .. input_dirs_count :
        LET c == DirCalls(d)
            m == ImagesOf(d)
            pp == settings.run_postprocess
        IN  /\ \A k \in 1 .. Len(c) :
                  \/ k <= 5 /\ c[k].name = StageOrder[k]
                  \/ /\ k > 5 /\ k <= 5 + m
                     /\ c[k].name = "img_handler.save"
                     /\ c[k].idx = k - 5
                  \/ /\ k = 5 + m + 1
                     /\ pp
                     /\ c[k].name = "postprocess_runner.run"
            /\ d \in CompletedDirs => Len(c) = 5 + m + (IF pp THEN 1 ELSE 0)

\* A completed directory with three saved images and its post-process call.
C12_Witness ==
    /\ 1 \in CompletedDirs
    /\ Len(DirCalls(1)) = 9
    /\ DirCalls(1)[8].idx = 3
    /\ DirCalls(1)[9].name = "postprocess_runner.run"

\* C13 as stated: without post-processing and upscale, a completed run
\* makes 1 + 4 * N + (sum of M_i) + 1 status emissions.
C13_SeventeenEmissions ==
    (pc = "done" /\ ~settings.run_postprocess /\ ~use_waifu2x) =>
        /\ Len(Statuses) =
              1 + 4 * input_dirs_count + SumImages(input_dirs_count) + 1
        /\ Statuses[Len(Statuses)].pct = Pct(100)

\* C13 as amended: such a run makes 2 explore emissions, 5 per directory
\* (loading, combining, detecting, slicing, saving), one per saved image and
\* the completion emission, whose percentage is 100.
C13_EmissionCount ==
    (pc = "done" /\ ~settings.run_postprocess /\ ~use_waifu2x) =>
        /\ Len(Statuses) =
              2 + 5 * input_dirs_count + SumImages(input_dirs_count) + 1
        /\ Statuses[Len(Statuses)].pct = Pct(100)

\* Two directories of three images each: 19 emissions.
C13_Witness ==
    /\ pc = "done"
    /\ ~settings.run_postprocess
    /\ ~use_waifu2x
    /\ input_dirs_count = 2
    /\ ImagesOf(1) = 3
    /\ ImagesOf(2) = 3
    /\ Len(Statuses) = 19

\* C14: with use_waifu2x the explorer is given output_path + "/tmp", which
\* is not output_path, and the upscaler gets that same path as input and
\* output_path as output; without use_waifu2x the explorer is given
\* output_path and nothing is launched on, or removed from, a staging tree.
C14_StagingTarget ==
    /\ \A i \in CallsOf("explorer.run") :
          /\ use_waifu2x =>
                /\ log[i].args = <<output_path \o <<"/", "t", "m", "p">>>>
                /\ log[i].args[1] # output_path
          /\ ~use_waifu2x => log[i].args = <<output_path>>
    /\ \A i \in CallsOf("subprocess.run") :
          /\ \E j \in CallsOf("explorer.run") :
                j < i /\ log[i].args[3] = log[j].args[1]
          /\ log[i].args[2] = <<"-", "i">>
          /\ log[i].args[4] = <<"-", "o">>
          /\ log[i].args[5] = output_path
    /\ ~use_waifu2x =>
          /\ CallsOf("subprocess.run") = {}
          /\ CallsOf("shutil.rmtree") = {}
          /\ ~staging_exists

\* The upscaler was launched on the staging tree of output path "out".
C14_Witness ==
    /\ output_path = <<"o", "u", "t">>
    /\ \E i \in CallsOf("subprocess.run") : log[i].args[3] = <<"o", "u", "t", "/", "t", "m", "p">>

\* The text of an upscale parameter: the caller's value, or the default.
Arg(key, default) ==
    IF key \in DOMAIN waifu_kwargs THEN PyStr(waifu_kwargs[key]) ELSE default

\* C15: for a path ending in cui.exe the argument vector is the variant A
\* template, each parameter after its flag, omitted ones at their defaults.
C15_VariantA ==
    \A i \in CallsOf("subprocess.run") :
        EndsWith(waifu2x_path, CuiSuffix) =>
            log[i].args =
                <<waifu2x_path,
                  <<"-", "i">>, output_path \o <<"/", "t", "m", "p">>,
                  <<"-", "o">>, output_path,
                  <<"-", "e">>, Arg("output_type", <<".", "p", "n", "g">>),
                  <<"-", "m">>, Arg("mode", <<"n", "o", "i", "s", "e", "_", "s", "c", "a", "l", "e">>),
                  <<"-", "s">>, Arg("scale_ratio", <<"2", ".", "0">>),
                  <<"-", "n">>, Arg("noise_level", <<"0">>),
                  <<"-", "p">>, Arg("processWaifu", <<"c", "p", "u">>),
                  <<"-", "c">>, Arg("crop_size", <<"1", "2", "8">>),
                  <<"-", "q">>, Arg("output_quality", <<"-", "1">>),
                  <<"-", "d">>, Arg("output_depth", <<"8">>),
                  <<"-", "b">>, Arg("batch_size", <<"1">>),
                  <<"-", "-", "g", "p", "u">>, Arg("gpu_device", <<"0">>),
                  <<"-", "t">>, Arg("tta", <<"0">>)>>

\* The caffe upscaler was launched with every optional parameter omitted.
C15_Witness ==
    /\ waifu_kwargs = NoKwargs
    /\ \E i \in CallsOf("subprocess.run") :
          /\ EndsWith(log[i].args[1], CuiSuffix)
          /\ log[i].args[11] = <<"2", ".", "0">>

\* C16: for a path ending in vulkan.exe the argument vector is the variant
\* B template with its defaults; gpu_id is -1 when the device mode is
\* "cpu" or omitted and 0 for any other device mode.
C16_VariantB ==
    \A i \in CallsOf("subprocess.run") :
        EndsWith(waifu2x_path, VulkanSuffix) =>
            log[i].args =
                <<waifu2x_path,
                  <<"-", "i">>, output_path \o <<"/", "t", "m", "p">>,
                  <<"-", "o">>, output_path,
                  <<"-", "n">>, Arg("noise_level", <<"-", "1">>),
                  <<"-", "s">>, Arg("scale_ratio", <<"1">>),
                  <<"-", "t">>, Arg("tile", <<"0">>),
                  <<"-", "m">>, <<"m", "o", "d", "e", "l", "s", "/">> \o Arg("profile", <<"c", "u", "n", "e", "t">>),
                  <<"-", "g">>, (IF Arg("processWaifu", <<"c", "p", "u">>) = <<"c", "p", "u">>
                         THEN <<"-", "1">> ELSE <<"0">>),
                  <<"-", "x">>,
                  <<"-", "f">>, Arg("output_type", <<".", "p", "n", "g">>)>>

\* The vulkan upscaler was launched for device mode "gpu": gpu_id is 0.
C16_Witness ==
    /\ waifu_kwargs = FullKwargs
    /\ \E i \in CallsOf("subprocess.run") :
          /\ EndsWith(log[i].args[1], VulkanSuffix)
          /\ log[i].args[13] = <<"m", "o", "d", "e", "l", "s", "/", "p", "h", "o", "t", "o">>
          /\ log[i].args[15] = <<"0">>

\* run() got past building its step table.
TableBuilt == pc # "idle" /\ error.site # "SettingsHandler"

\* C17: the weights of the stages a run executes sum to 100: save is 50
\* and the post-process weight is never added when run_postprocess is
\* false; save is 30 and post-process 20 when it is true.
C17_WeightsSumToHundred ==
    TableBuilt =>
        LET w == step_percentages
        IN  /\ has_postprocess = settings.run_postprocess
            /\ w.explore + w.load + w.combine + w.detect + w.slice + w.save
                 + (IF has_postprocess THEN w.postprocess ELSE 0) = 100
            /\ ~has_postprocess =>
                  /\ w.save = 50
                  /\ CallsOf("postprocess_runner.run") = {}
            /\ has_postprocess => w.save = 30 /\ w.postprocess = 20

\* A completed run without post-processing over at least one directory.
C17_Witness ==
    /\ pc = "done"
    /\ ~has_postprocess
    /\ input_dirs_count >= 1
    /\ SavedOf(1) >= 1

\* C18: every percentage passed to status_func lies in [0, 100].
C18_InRange ==
    \A i \in DOMAIN log :
        IsStatus(log[i]) =>
            /\ FloatLe(Pct(0), log[i].pct)
            /\ FloatLe(log[i].pct, Pct(100))

C20_CleanupOnEveryPath ==
    sub_exit \in {"exit0", "nonzero", "launchfail"} => ~staging_exists

====
